---- MODULE Spec2Model ----
(***************************************************************************)
(* B3 Stocks Dashboard: the accessor functions and the statistics engine   *)
(* of services.py, and the render pass main() of streamlit_app.py.         *)
(*                                                                         *)
(* Numbers are exact rationals [n, d] in lowest terms with d > 0; the      *)
(* record with d = 0 is pandas' NaN (an absent value).  A value that is a  *)
(* square root (a standard deviation and what is derived from it) is kept  *)
(* as the rational under the root.  Closing prices are positive, so no     *)
(* division by a zero price occurs.                                        *)
(***************************************************************************)
EXTENDS Integers, Sequences, FiniteSets, TLC

(***************************************************************************)
(* Bounds of the model.                                                    *)
(***************************************************************************)
\* trading days of the calendar a history may cover (dates are 1..MaxDate)
MaxDate == 3
\* render passes of one session
MaxPasses == 2
\* calls of load_ticker_info_today in one cache scenario
MaxCalls == 3

(***************************************************************************)
(* Rational arithmetic with NaN.                                           *)
(***************************************************************************)
NaN == [n |-> 0, d |-> 0]

IsNaN(x) == x.d = 0

Abs(a) == IF a < 0 THEN -a ELSE a

RECURSIVE GCD(_, _)
GCD(a, b) == IF b = 0 THEN a ELSE GCD(b, a % b)

Rat(n, d) ==
  IF d = 0 THEN NaN
  ELSE LET g == GCD(Abs(n), Abs(d))
           s == IF d < 0 THEN -1 ELSE 1
       IN  [n |-> (s * n) \div g, d |-> (s * d) \div g]

Int2Rat(k) == [n |-> k, d |-> 1]

Zero == Int2Rat(0)

One == Int2Rat(1)

RatAdd(a, b) ==
  IF IsNaN(a) \/ IsNaN(b) THEN NaN
  ELSE LET g == GCD(a.d, b.d)
       IN  Rat(a.n * (b.d \div g) + b.n * (a.d \div g), (a.d \div g) * b.d)

RatNeg(a) == [n |-> -a.n, d |-> a.d]

RatSub(a, b) == RatAdd(a, RatNeg(b))

RatMul(a, b) ==
  IF IsNaN(a) \/ IsNaN(b) THEN NaN
  ELSE LET g1 == GCD(Abs(a.n), b.d)
           g2 == GCD(Abs(b.n), a.d)
       IN  Rat((a.n \div g1) * (b.n \div g2), (a.d \div g2) * (b.d \div g1))

\* a / b; x / 0 is NaN here (it is not reached: prices are positive)
RatDiv(a, b) ==
  IF IsNaN(a) \/ IsNaN(b) \/ b.n = 0 THEN NaN
  ELSE RatMul(a, Rat(b.d, b.n))

RatLess(a, b) == a.n * b.d < b.n * a.d

RatLeq(a, b) == a.n * b.d <= b.n * a.d

\* numpy's round(x, 2): rint(x * 100) / 100, halves to the even neighbour
Round2(x) ==
  IF IsNaN(x) THEN NaN
  ELSE LET y   == RatMul(x, Int2Rat(100))
           lo  == y.n \div y.d
           rem == y.n - lo * y.d
           h   == IF 2 * rem < y.d THEN lo
                  ELSE IF 2 * rem > y.d THEN lo + 1
                  ELSE IF lo % 2 = 0 THEN lo ELSE lo + 1
       IN  Rat(h, 100)

\* x * 100
Percent(x) == RatMul(x, Int2Rat(100))

\* the square root of q, kept as q (NaN when q is NaN)
SqrtOf(q) == [sqrt_of |-> q]

(***************************************************************************)
(* Sequences and sets.                                                     *)
(***************************************************************************)
Range(s) == {s[i] : i \in 1..Len(s)}

Min(S) == CHOOSE x \in S : \A y \in S : x <= y

RECURSIVE SortedSeq(_)
SortedSeq(S) == IF S = {} THEN <<>> ELSE <<Min(S)>> \o SortedSeq(S \ {Min(S)})

Perms(S) == {p \in [1..Cardinality(S) -> S] : \A i, j \in 1..Cardinality(S) : p[i] = p[j] => i = j}

IndexOf(s, x) == CHOOSE i \in 1..Len(s) : s[i] = x

(***************************************************************************)
(* Tables.  A PriceTable (the frame yfinance's history returns, one row    *)
(* per trading day) is a sequence of bars in date order.  A Series is an   *)
(* index (a sequence of dates) and a value per date; a DataFrame is an     *)
(* index, the column labels in order, and a value per column and date.     *)
(***************************************************************************)
EmptyFrame == [index |-> <<>>, columns |-> <<>>, data |-> [c \in {} |-> <<>>]]

Series(index, val) == [index |-> index, val |-> [d \in Range(index) |-> val[d]]]

\* hist['Close'] (Column(hist, "High") is hist['High'], and so on)
Column(hist, name) ==
  LET index == [i \in 1..Len(hist) |-> hist[i].Date]
  IN  [index |-> index,
       val   |-> [d \in Range(index) |->
                    LET bar == hist[IndexOf(index, d)]
                    IN  CASE name = "Close" -> bar.Close
                          [] name = "High"  -> bar.High
                          [] name = "Low"   -> bar.Low]]

\* the values of a series in index order
Values(s) == [i \in 1..Len(s.index) |-> s.val[s.index[i]]]

\* setitem taking a value's index only while the frame has no column yet
setitem_index_once(df, col, s) ==
  LET index   == IF Len(df.columns) = 0 THEN s.index ELSE df.index
      columns == IF col \in Range(df.columns) THEN df.columns ELSE Append(df.columns, col)
      aligned == [d \in Range(index) |-> IF d \in Range(s.index) THEN s.val[d] ELSE NaN]
  IN  [index   |-> index,
       columns |-> columns,
       data    |-> [c \in Range(columns) |->
                      IF c = col THEN aligned
                      ELSE [d \in Range(index) |->
                              IF d \in Range(df.index) THEN df.data[c][d] ELSE NaN]]]

\* DataFrame.__setitem__ with a Series: a frame whose index is empty takes
\* the index of a non-empty value (its columns so far become NaN); the value
\* is then aligned to the frame's index, NaN where it has no such date
setitem(df, col, s) ==
  LET index   == IF Len(df.index) = 0 /\ Len(s.index) > 0 THEN s.index ELSE df.index
      columns == IF col \in Range(df.columns) THEN df.columns ELSE Append(df.columns, col)
      aligned == [d \in Range(index) |-> IF d \in Range(s.index) THEN s.val[d] ELSE NaN]
  IN  [index   |-> index,
       columns |-> columns,
       data    |-> [c \in Range(columns) |->
                      IF c = col THEN aligned
                      ELSE [d \in Range(index) |->
                              IF d \in Range(df.index) THEN df.data[c][d] ELSE NaN]]]

\* Series.ffill(): an absent value takes the last value before it
RECURSIVE ffill_at(_, _)
ffill_at(s, i) ==
  IF ~IsNaN(s.val[s.index[i]]) \/ i = 1 THEN s.val[s.index[i]] ELSE ffill_at(s, i - 1)

ffill(s) == [index |-> s.index, val |-> [d \in Range(s.index) |-> ffill_at(s, IndexOf(s.index, d))]]

\* pct_change as the plain ratio data / data.shift(1)
pct_change_ratio(s, fill_method) ==
  LET data == IF fill_method = "pad" THEN ffill(s) ELSE s
  IN  [index |-> s.index,
       val   |-> [d \in Range(s.index) |->
                    LET i == IndexOf(s.index, d)
                    IN  IF i = 1 THEN NaN
                        ELSE RatDiv(data.val[d], data.val[s.index[i - 1]])]]

\* Series.pct_change(): data / data.shift(1) - 1, the first row NaN; data is
\* the series forward-filled under fill_method "pad" (pandas before 3.0) and
\* the series itself under fill_method None (pandas 3.0)
pct_change(s, fill_method) ==
  LET data == IF fill_method = "pad" THEN ffill(s) ELSE s
  IN  [index |-> s.index,
       val   |-> [d \in Range(s.index) |->
                    LET i == IndexOf(s.index, d)
                    IN  IF i = 1 THEN NaN
                        ELSE RatSub(RatDiv(data.val[d], data.val[s.index[i - 1]]), One)]]

\* fillna(0) left out
fillna0_skipped(s) == s

\* Series.fillna(0)
fillna0(s) ==
  [index |-> s.index, val |-> [d \in Range(s.index) |-> IF IsNaN(s.val[d]) THEN Zero ELSE s.val[d]]]

\* Series.prod() (skipna): 1 for an empty series
RECURSIVE ProdSeq(_)
ProdSeq(v) == IF v = <<>> THEN One ELSE RatMul(Head(v), ProdSeq(Tail(v)))

RECURSIVE SumSeq(_)
SumSeq(v) == IF v = <<>> THEN Zero ELSE RatAdd(Head(v), SumSeq(Tail(v)))

SkipNa(v) == SelectSeq(v, LAMBDA x : ~IsNaN(x))

prod(s) == ProdSeq(SkipNa(Values(s)))

\* cumprod one row behind: the product of the rows before each row
cumprod_lagging(s) ==
  [index |-> s.index,
   val   |-> [d \in Range(s.index) |-> ProdSeq(SubSeq(Values(s), 1, IndexOf(s.index, d) - 1))]]

\* Series.cumprod(): the running product (no value is absent after fillna)
cumprod(s) ==
  [index |-> s.index,
   val   |-> [d \in Range(s.index) |-> ProdSeq(SubSeq(Values(s), 1, IndexOf(s.index, d)))]]

\* Series.mean() (skipna): NaN for an empty series
mean(s) ==
  LET v == SkipNa(Values(s))
  IN  IF v = <<>> THEN NaN ELSE RatDiv(SumSeq(v), Int2Rat(Len(v)))

\* the square of Series.std() (skipna, ddof = 1): NaN below two values
var(s) ==
  LET v  == SkipNa(Values(s))
      m  == mean(s)
      sq == [i \in 1..Len(v) |-> RatMul(RatSub(v[i], m), RatSub(v[i], m))]
  IN  IF Len(v) < 2 THEN NaN ELSE RatDiv(SumSeq(sq), Int2Rat(Len(v) - 1))

std(s) == SqrtOf(var(s))

\* Series.max() and Series.min() (skipna): NaN for an empty series
max(s) ==
  LET v == SkipNa(Values(s))
  IN  IF v = <<>> THEN NaN
      ELSE v[CHOOSE i \in 1..Len(v) : \A j \in 1..Len(v) : RatLeq(v[j], v[i])]

min(s) ==
  LET v == SkipNa(Values(s))
  IN  IF v = <<>> THEN NaN
      ELSE v[CHOOSE i \in 1..Len(v) : \A j \in 1..Len(v) : RatLeq(v[i], v[j])]

\* Series.median() (skipna): the middle value, or the mean of the two
median(s) ==
  LET v == SkipNa(Values(s))
      n == Len(v)
      \* the k-th smallest value
      kth(k) == v[CHOOSE i \in 1..n :
                    /\ Cardinality({j \in 1..n : RatLess(v[j], v[i])}) < k
                    /\ Cardinality({j \in 1..n : RatLeq(v[j], v[i])}) >= k]
  IN  IF n = 0 THEN NaN
      ELSE IF n % 2 = 1 THEN kth((n + 1) \div 2)
      ELSE RatDiv(RatAdd(kth(n \div 2), kth(n \div 2 + 1)), Int2Rat(2))

(***************************************************************************)
(* services.py: the accessor.                                              *)
(*                                                                         *)
(* A bar carries the fields the program reads: Date, High, Low and Close   *)
(* (Open and Volume are fetched and read by no function).                  *)
(***************************************************************************)
\* load_ticker_history, after the fetch: reset_index().round(2), Date to a date
load_ticker_history(hist) ==
  [i \in 1..Len(hist) |->
     [Date  |-> hist[i].Date,
      High  |-> Round2(hist[i].High),
      Low   |-> Round2(hist[i].Low),
      Close |-> Round2(hist[i].Close)]]

\* df_stocks_close, after the fetches: one column per ticker of the list, in
\* the order of the list, each set from hist['Close']
RECURSIVE df_stocks_close_loop(_, _, _)
df_stocks_close_loop(df_close, history, list) ==
  IF list = <<>> THEN df_close
  ELSE df_stocks_close_loop(setitem(df_close, Head(list), Column(history[Head(list)], "Close")),
                            history, Tail(list))

df_stocks_close(history, stocks) == df_stocks_close_loop(EmptyFrame, history, stocks)

\* ticker_info before load_ticker_info_today has returned
NoInfo ==
  [Last_Price |-> NaN, Previous_Close |-> NaN, Pct_Today |-> NaN, Open_Price |-> NaN,
   Day_High |-> NaN, Day_Low |-> NaN, Long_Name |-> ""]

\* st.cache_data(ttl=300): seconds an entry of load_ticker_info_today lives
TTL == 300

\* an entry never expiring, as under st.cache_data without ttl
InfoFreshForever(cache, t, clock) == t \in DOMAIN cache

\* the cache of load_ticker_info_today holds an entry for t that has not
\* expired: an entry expires once the clock reaches its fetch time + ttl
InfoFresh(cache, t, clock) == t \in DOMAIN cache /\ clock < cache[t].fetched_at + TTL

\* the body of load_ticker_info_today on the upstream quote q
ticker_info_of(q) ==
  LET last_price     == Round2(q.lastPrice)
      previous_close == Round2(q.previousClose)
  IN  [Last_Price     |-> last_price,
       Previous_Close |-> previous_close,
       Pct_Today      |-> Percent(RatSub(RatDiv(last_price, previous_close), One)),
       Open_Price     |-> Round2(q.open),
       Day_High       |-> Round2(q.dayHigh),
       Day_Low        |-> Round2(q.dayLow),
       Long_Name      |-> q.longName]

\* load_ticker_info_today(t) at time clock: a fresh entry is returned without
\* a fetch ("hit"); otherwise the body runs, and either returns a snapshot,
\* which is stored with its fetch time ("fetched"), or raises, and nothing is
\* stored ("raised").  upstream is "raise" or the quote the source answers.
load_ticker_info_today(cache, t, clock, upstream) ==
  IF InfoFresh(cache, t, clock)
  THEN [outcome |-> "hit", info |-> cache[t].info, fetched_at |-> cache[t].fetched_at,
        cache |-> cache]
  ELSE IF upstream.answer = "raise"
  THEN [outcome |-> "raised", info |-> NoInfo, fetched_at |-> -1,
        cache |-> [k \in DOMAIN cache \ {t} |-> cache[k]]]
  ELSE [outcome |-> "fetched", info |-> ticker_info_of(upstream.quote), fetched_at |-> clock,
        cache |-> [k \in DOMAIN cache \cup {t} |->
                     IF k = t THEN [info |-> ticker_info_of(upstream.quote), fetched_at |-> clock]
                     ELSE cache[k]]]

(***************************************************************************)
(* services.py: the statistics engine.                                     *)
(***************************************************************************)
\* 1 + series
OnePlus(s) == [index |-> s.index, val |-> [d \in Range(s.index) |-> RatAdd(One, s.val[d])]]

\* df_stock['Close'].pct_change().fillna(0)
stock_returns(df, fill_method) == fillna0(pct_change(Column(df, "Close"), fill_method))

\* 252 trading days a year: std * 252 ** 0.5 * 100 is the root of var * 252 * 100 * 100
TradingDays == 252

statistics_historical_data(df, fill_method) ==
  LET returns     == stock_returns(df, fill_method)
      close       == Column(df, "Close")
      mean_price  == mean(close)
  IN  [Volatility            |-> SqrtOf(RatMul(var(returns), Int2Rat(TradingDays * 100 * 100))),
       Cumulative_Return     |-> Percent(RatSub(prod(OnePlus(returns)), One)),
       High_Price            |-> max(Column(df, "High")),
       Low_Price             |-> min(Column(df, "Low")),
       Median_Price          |-> median(close),
       Mean_Price            |-> mean_price,
       Standard_Deviation    |-> std(close),
       Coefficient_Variation |-> SqrtOf(RatMul(RatDiv(var(close), RatMul(mean_price, mean_price)),
                                               Int2Rat(100 * 100)))]

\* df_close_prices.pct_change().fillna(0), column by column
df_returns(df_close, fill_method) ==
  [index   |-> df_close.index,
   columns |-> df_close.columns,
   data    |-> [c \in Range(df_close.columns) |->
                  fillna0(pct_change(Series(df_close.index, df_close.data[c]), fill_method)).val]]

\* ((1 + df_close_returns).prod() - 1) * 100: one value per column
cumulative_returns(df) ==
  [i \in 1..Len(df.columns) |->
     [Ticker            |-> df.columns[i],
      Cumulative_Return |-> Percent(RatSub(prod(OnePlus(Series(df.index, df.data[df.columns[i]]))), One))]]

\* sort_values(by = 'Cumulative Return', ascending = False): the default kind
\* is quicksort, which is not stable, so rows of equal value come out in any
\* order; the result is the set of orders the sort may produce
sort_values_descending(rows) ==
  {p \in Perms(1..Len(rows)) :
     \A i, j \in 1..Len(rows) :
        i < j => RatLeq(rows[p[j]].Cumulative_Return, rows[p[i]].Cumulative_Return)}

\* df_stocks_returns_ranking: the rows sorted, then rounded to 2 decimals
df_stocks_returns_ranking(df) ==
  LET rows == cumulative_returns(df)
  IN  {[i \in 1..Len(rows) |->
          [Ticker            |-> rows[p[i]].Ticker,
           Cumulative_Return |-> Round2(rows[p[i]].Cumulative_Return)]] :
       p \in sort_values_descending(rows)}

\* (((1 + df_close_returns).cumprod() - 1) * 100).round(2)
df_stocks_returns_period(df) ==
  [index   |-> df.index,
   columns |-> df.columns,
   data    |-> [c \in Range(df.columns) |->
                  LET grown == cumprod(OnePlus(Series(df.index, df.data[c])))
                  IN  [d \in Range(df.index) |-> Round2(Percent(RatSub(grown.val[d], One)))]]]

\* a ranking is sorted on its value column in descending order, absent values
\* last; the values are roots, ordered as what is under the root
RootLeq(a, b) == IsNaN(a.sqrt_of) \/ (~IsNaN(b.sqrt_of) /\ RatLeq(a.sqrt_of, b.sqrt_of))

\* .round(2) of a root: kept as the root and the decimals it is rounded to
RoundedRoot(q) == [sqrt_of |-> q, decimals |-> 2]

\* Series.sort_values(ascending = False) of one value per ticker (quicksort:
\* rows of equal value in any order)
SortedDescending(rows) ==
  {[i \in 1..Len(rows) |-> rows[p[i]]] : p \in
     {q \in Perms(1..Len(rows)) :
        \A i, j \in 1..Len(rows) : i < j => RootLeq(rows[q[j]].Value, rows[q[i]].Value)}}

\* ((df_close_returns.std() * 252 ** 0.5) * 100).round(2).sort_values(ascending = False)
df_annualized_volatility(df) ==
  SortedDescending(
    [i \in 1..Len(df.columns) |->
       [Ticker |-> df.columns[i],
        Value  |-> RoundedRoot(RatMul(var(Series(df.index, df.data[df.columns[i]])),
                                      Int2Rat(TradingDays * 100 * 100)))]])

\* (df_close_prices.std() / df_close_prices.mean() * 100).round(2).sort_values(ascending = False)
df_coefficient_variation(df) ==
  SortedDescending(
    [i \in 1..Len(df.columns) |->
       LET col == Series(df.index, df.data[df.columns[i]])
       IN  [Ticker |-> df.columns[i],
            Value  |-> RoundedRoot(RatMul(RatDiv(var(col), RatMul(mean(col), mean(col))),
                                          Int2Rat(100 * 100)))]])

\* the covariance of two columns of returns (no value is absent in them)
cov(x, y) ==
  LET vx == Values(x)
      vy == Values(y)
      n  == Len(vx)
      pr == [i \in 1..n |-> RatMul(RatSub(vx[i], mean(x)), RatSub(vy[i], mean(y)))]
  IN  IF n < 2 THEN NaN ELSE RatDiv(SumSeq(pr), Int2Rat(n - 1))

Sign(x) == IF x.n > 0 THEN 1 ELSE IF x.n < 0 THEN -1 ELSE 0

\* df_close_returns.corr(): Pearson's cov / (std * std) for every pair of
\* columns, kept as its sign and its square
corr(df) ==
  [index   |-> df.columns,
   columns |-> df.columns,
   data    |-> [c \in Range(df.columns) |-> [r \in Range(df.columns) |->
                  LET x == Series(df.index, df.data[c])
                      y == Series(df.index, df.data[r])
                      q == RatDiv(RatMul(cov(x, y), cov(x, y)), RatMul(var(x), var(y)))
                  IN  [sign |-> IF IsNaN(q) THEN 0 ELSE Sign(cov(x, y)), sqrt_of |-> q]]]]


(***************************************************************************)
(* The state: the locals of main() in one render pass, the three caches of *)
(* st.cache_data, the clock, and the upstream market-data source.          *)
(***************************************************************************)
VARIABLES
  pc,                     \* the position in main(), or the scenario of the engine
  passes,                 \* render passes started in this session
  now,                    \* the clock, in seconds
  market,                 \* upstream: the history yfinance holds per ticker
  fill_method,            \* the installed pandas: pct_change pads ("pad") or not ("none")
  stock_selected,         \* st.selectbox('Stock Ticker')
  stocks_list,            \* st.multiselect('Stock Tickers')
  df_stock,               \* load_ticker_history's result
  history_outcome,        \* how the fetch behind df_stock ended
  stats,                  \* statistics_historical_data's result
  ticker_info,            \* load_ticker_info_today's result
  df_close_prices,
  df_close_returns,
  df_returns_period,
  df_cumulative_returns,
  corr_matrix,
  annualized_volatility,
  coefficient_variation,
  calls,                  \* the functions of services.py invoked so far in this pass
  rendered,               \* the sections of the page written so far in this pass
  error,                  \* the exception that ended the pass, or "none"
  history_cache,          \* st.cache_data of load_ticker_history
  close_cache,            \* st.cache_data of df_stocks_close
  info_cache,             \* st.cache_data(ttl=300) of load_ticker_info_today
  last_call               \* the latest call of load_ticker_info_today, as observed

vars ==
  <<pc, passes, now, market, fill_method, stock_selected, stocks_list, df_stock,
    history_outcome, stats, ticker_info, df_close_prices, df_close_returns,
    df_returns_period, df_cumulative_returns, corr_matrix, annualized_volatility,
    coefficient_variation, calls, rendered, error, history_cache, close_cache,
    info_cache, last_call>>

\* config.STOCKS: the tickers on offer
STOCKS == {"PETR4.SA", "VALE3.SA"}

\* what st.multiselect can return: the tickers of a subset, in the order picked
StockLists == UNION {Perms(S) : S \in SUBSET STOCKS}

FillMethods == {"pad", "none"}

Called(f) == f \in Range(calls)

NoStats ==
  [Volatility |-> SqrtOf(NaN), Cumulative_Return |-> NaN, High_Price |-> NaN,
   Low_Price |-> NaN, Median_Price |-> NaN, Mean_Price |-> NaN,
   Standard_Deviation |-> SqrtOf(NaN), Coefficient_Variation |-> SqrtOf(NaN)]

NoCall == [seq |-> 0, ticker |-> "", at |-> 0, outcome |-> "none", fetched_at |-> -1,
           info |-> NoInfo, prior_at |-> -1, prior_info |-> NoInfo]

\* the locals of main() before anything is assigned
FreshPass ==
  /\ stock_selected = ""
  /\ df_stock = <<>>
  /\ history_outcome = "none"
  /\ stats = NoStats
  /\ ticker_info = NoInfo
  /\ df_close_prices = EmptyFrame
  /\ df_close_returns = EmptyFrame
  /\ df_returns_period = EmptyFrame
  /\ df_cumulative_returns = <<>>
  /\ corr_matrix = EmptyFrame
  /\ annualized_volatility = <<>>
  /\ coefficient_variation = <<>>
  /\ calls = <<>>
  /\ rendered = {}
  /\ error = "none"

ColdCaches ==
  /\ history_cache = [t \in {} |-> <<>>]
  /\ close_cache = [l \in {} |-> <<>>]
  /\ info_cache = [t \in {} |-> <<>>]
  /\ last_call = NoCall

(***************************************************************************)
(* The engine on bounded inputs: every history over the calendar with      *)
(* prices from a small set, given to the functions of services.py.         *)
(***************************************************************************)
Dates == 1..MaxDate

\* upstream closing prices of the comparison scenario, in R$: three prices
\* within 1% of each other, so that cumulative returns can differ by less
\* than the 2 decimals they are rounded to
ClosePrices == {Int2Rat(400), Int2Rat(401), Int2Rat(402)}

\* upstream bars <<high, low, close>> of the single-stock scenario, in
\* thousandths of R$ (yfinance's prices carry more than 2 decimals)
BarShapes ==
  {<<2004, 996, 1004>>, <<1996, 1996, 1996>>, <<3000, 1000, 2000>>, <<4005, 1995, 2996>>}

Bar(date, high, low, close) == [Date |-> date, High |-> high, Low |-> low, Close |-> close]

\* the tables with one bar per date of D, the bars drawn from B, in date order
TablesOver(D, B) ==
  {[i \in 1..Cardinality(D) |->
      Bar(SortedSeq(D)[i], f[SortedSeq(D)[i]].High, f[SortedSeq(D)[i]].Low,
          f[SortedSeq(D)[i]].Close)] : f \in [D -> B]}

CloseTables ==
  UNION {TablesOver(D, {Bar(0, c, c, c) : c \in ClosePrices}) : D \in SUBSET Dates}

StockTables ==
  UNION {TablesOver(D, {Bar(0, Rat(b[1], 1000), Rat(b[2], 1000), Rat(b[3], 1000)) : b \in BarShapes}) :
         D \in SUBSET Dates}

\* one stock's history, for load_ticker_history and statistics_historical_data
InitSingle ==
  /\ pc = "single"
  /\ FreshPass
  /\ stocks_list = <<>>
  /\ \E t \in STOCKS, h \in StockTables :
       market = [u \in STOCKS |-> IF u = t THEN h ELSE <<>>]

\* a list of stocks and their histories, for df_stocks_close and what follows
InitMatrix ==
  /\ pc = "matrix"
  /\ FreshPass
  /\ stocks_list \in StockLists
  /\ market \in [STOCKS -> CloseTables]
  /\ \A t \in STOCKS \ Range(stocks_list) : market[t] = <<>>

InitEngine ==
  /\ passes = 0
  /\ now = 0
  /\ fill_method \in FillMethods
  /\ ColdCaches
  /\ InitSingle \/ InitMatrix

UnchangedSession ==
  UNCHANGED <<passes, now, market, fill_method, history_cache, close_cache, info_cache,
              last_call, rendered, error, ticker_info, history_outcome>>

UnchangedComparison ==
  UNCHANGED <<df_close_prices, df_close_returns, df_returns_period, df_cumulative_returns,
              corr_matrix, annualized_volatility, coefficient_variation>>

ApplyLoadHistory ==
  /\ pc = "single" /\ calls = <<>>
  /\ \E t \in STOCKS :
       /\ market[t] # <<>> \/ \A u \in STOCKS : market[u] = <<>>
       /\ stock_selected' = t
       /\ df_stock' = load_ticker_history(market[t])
  /\ calls' = Append(calls, "load_ticker_history")
  /\ UNCHANGED <<pc, stocks_list, stats>>
  /\ UnchangedSession /\ UnchangedComparison

ApplyStatistics ==
  /\ pc = "single" /\ Called("load_ticker_history") /\ ~Called("statistics_historical_data")
  /\ stats' = statistics_historical_data(df_stock, fill_method)
  /\ calls' = Append(calls, "statistics_historical_data")
  /\ UNCHANGED <<pc, stock_selected, stocks_list, df_stock>>
  /\ UnchangedSession /\ UnchangedComparison

ApplyStocksClose ==
  /\ pc = "matrix" /\ calls = <<>>
  /\ df_close_prices' = df_stocks_close(market, stocks_list)
  /\ calls' = Append(calls, "df_stocks_close")
  /\ UNCHANGED <<pc, stock_selected, stocks_list, df_stock, stats, df_close_returns, df_returns_period,
                 df_cumulative_returns, corr_matrix, annualized_volatility,
                 coefficient_variation>>
  /\ UnchangedSession

ApplyReturns ==
  /\ pc = "matrix" /\ Called("df_stocks_close") /\ ~Called("df_returns")
  /\ df_close_returns' = df_returns(df_close_prices, fill_method)
  /\ calls' = Append(calls, "df_returns")
  /\ UNCHANGED <<pc, stock_selected, stocks_list, df_stock, stats, df_close_prices,
                 df_returns_period, df_cumulative_returns, corr_matrix,
                 annualized_volatility, coefficient_variation>>
  /\ UnchangedSession

ApplyReturnsPeriod ==
  /\ pc = "matrix" /\ Called("df_returns") /\ ~Called("df_stocks_returns_period")
  /\ df_returns_period' = df_stocks_returns_period(df_close_returns)
  /\ calls' = Append(calls, "df_stocks_returns_period")
  /\ UNCHANGED <<pc, stock_selected, stocks_list, df_stock, stats, df_close_prices,
                 df_close_returns, df_cumulative_returns, corr_matrix,
                 annualized_volatility, coefficient_variation>>
  /\ UnchangedSession

ApplyReturnsRanking ==
  /\ pc = "matrix" /\ Called("df_stocks_returns_period") /\ ~Called("df_stocks_returns_ranking")
  /\ df_cumulative_returns' \in df_stocks_returns_ranking(df_close_returns)
  /\ calls' = Append(calls, "df_stocks_returns_ranking")
  /\ UNCHANGED <<pc, stock_selected, stocks_list, df_stock, stats, df_close_prices,
                 df_close_returns, df_returns_period, corr_matrix,
                 annualized_volatility, coefficient_variation>>
  /\ UnchangedSession

NextEngine ==
  \/ ApplyLoadHistory
  \/ ApplyStatistics
  \/ ApplyStocksClose
  \/ ApplyReturns
  \/ ApplyReturnsPeriod
  \/ ApplyReturnsRanking

SpecEngine == InitEngine /\ [][NextEngine]_vars

(***************************************************************************)
(* The upstream source as the session sees it.                             *)
(***************************************************************************)
\* the last prices the source may quote, in R$ (more than 2 decimals)
LastPrices == {Rat(10004, 1000), Rat(10506, 1000)}

Quote(t, last) ==
  [lastPrice |-> last, previousClose |-> Rat(10251, 1000), open |-> Rat(10300, 1000),
   dayHigh |-> Rat(10607, 1000), dayLow |-> Rat(9998, 1000), longName |-> t]

\* what a fetch of the quote of t may end in: an exception (unknown ticker,
\* network error, a field missing in stocks.info) or a quote
UpstreamAnswers(t) ==
  {[answer |-> "raise", quote |-> Quote(t, NaN)]}
    \cup {[answer |-> "ok", quote |-> Quote(t, last)] : last \in LastPrices}

\* what a fetch of a history may end in: the table, an empty table (yfinance
\* reports an unknown or delisted ticker so), or an exception (network error)
HistoryAnswers == {"ok", "empty", "raise"}

\* the histories the source holds in the dashboard scenario
SampleMarket ==
  [t \in STOCKS |->
     IF t = "PETR4.SA"
     THEN <<Bar(1, Rat(10254, 1000), Rat(9871, 1000), Rat(10000, 1000)),
            Bar(2, Rat(12012, 1000), Rat(10000, 1000), Rat(12000, 1000)),
            Bar(3, Rat(12250, 1000), Rat(8900, 1000), Rat(9000, 1000))>>
     ELSE <<Bar(1, Rat(20400, 1000), Rat(19800, 1000), Rat(20000, 1000)),
            Bar(3, Rat(25100, 1000), Rat(20900, 1000), Rat(25000, 1000))>>]

(***************************************************************************)
(* load_ticker_info_today called over time (SpecCache).                    *)
(***************************************************************************)
\* the waits between two calls: a moment, and either side of the ttl
CacheGaps == {1, TTL - 1, TTL, TTL + 1}

Observed(t, r) ==
  [seq        |-> last_call.seq + 1,
   ticker     |-> t,
   at         |-> now,
   outcome    |-> r.outcome,
   fetched_at |-> r.fetched_at,
   info       |-> r.info,
   prior_at   |-> IF t \in DOMAIN info_cache THEN info_cache[t].fetched_at ELSE -1,
   prior_info |-> IF t \in DOMAIN info_cache THEN info_cache[t].info ELSE NoInfo]

InitCache ==
  /\ pc = "cache"
  /\ passes = 0
  /\ now = 0
  /\ market = SampleMarket
  /\ fill_method = "pad"
  /\ stocks_list = <<>>
  /\ FreshPass
  /\ ColdCaches

UnchangedPass ==
  UNCHANGED <<passes, market, fill_method, stock_selected, stocks_list, df_stock,
              history_outcome, stats, df_close_prices, df_close_returns, df_returns_period,
              df_cumulative_returns, corr_matrix, annualized_volatility,
              coefficient_variation, calls, rendered, error, history_cache, close_cache>>

\* time passes between two calls
CacheWait ==
  /\ pc = "cache" /\ now = last_call.at /\ last_call.seq < MaxCalls
  /\ \E gap \in CacheGaps : now' = now + gap
  /\ UNCHANGED <<pc, ticker_info, info_cache, last_call>>
  /\ UnchangedPass

CacheCall ==
  /\ pc = "cache" /\ last_call.seq < MaxCalls
  /\ \E t \in STOCKS : \E upstream \in UpstreamAnswers(t) :
       LET r == load_ticker_info_today(info_cache, t, now, upstream)
       IN  /\ info_cache' = r.cache
           /\ ticker_info' = IF r.outcome = "raised" THEN ticker_info ELSE r.info
           /\ last_call' = Observed(t, r)
  /\ UNCHANGED <<pc, now>>
  /\ UnchangedPass

NextCache == CacheWait \/ CacheCall

SpecCache == InitCache /\ [][NextCache]_vars

\* C4: a QuoteSnapshot returned by load_ticker_info_today was fetched at most
\* 300 seconds before the call; a call made when the ticker's cached entry is
\* older than 300 seconds fetches again, and a call made less than 300
\* seconds after the fetch of the ticker's cached entry returns that entry
\* without a fetch.
C4_SnapshotAtMostTTLOld ==
  last_call.outcome # "none" =>
    /\ last_call.outcome \in {"hit", "fetched"} =>
         /\ last_call.fetched_at <= last_call.at
         /\ last_call.at - last_call.fetched_at <= TTL
    /\ last_call.prior_at >= 0 /\ last_call.at - last_call.prior_at > TTL =>
         last_call.outcome \in {"fetched", "raised"}
    /\ last_call.prior_at >= 0 /\ last_call.at - last_call.prior_at < TTL =>
         /\ last_call.outcome = "hit"
         /\ last_call.fetched_at = last_call.prior_at
         /\ last_call.info = last_call.prior_info

\* C4 happens: a third call finds the ticker's entry older than the ttl and
\* fetches a snapshot that differs from the entry
C4_Witness ==
  /\ last_call.seq = 3
  /\ last_call.outcome = "fetched"
  /\ last_call.prior_at >= 0
  /\ last_call.at - last_call.prior_at = TTL + 1
  /\ last_call.info # last_call.prior_info

(***************************************************************************)
(* streamlit_app.py: main(), one action per statement that calls           *)
(* services.py or writes the page, in the order of the source.  A pass     *)
(* ends "done" (the whole page is written), "stopped" (st.stop()) or       *)
(* "crashed" (an exception left main()).  Both period selectors keep       *)
(* their default, '1y'.                                                    *)
(***************************************************************************)
\* the waits between two passes of a session
RerunGaps == {1, TTL}

\* the functions main() calls on the list of tickers selected for comparison
MultiTickerFunctions ==
  {"df_returns", "df_stocks_returns_period", "df_stocks_returns_ranking", "corr",
   "df_annualized_volatility", "df_coefficient_variation"}

StockSections == {"about", "statistics", "quote", "price_chart"}

ComparisonSections ==
  {"returns_chart", "heatmap", "returns_ranking", "volatility_ranking", "variation_ranking"}

Init ==
  /\ pc = "select_stock"
  /\ passes = 1
  /\ now = 0
  /\ market = SampleMarket
  /\ fill_method \in FillMethods
  /\ stocks_list = <<>>
  /\ FreshPass
  /\ ColdCaches

UnchangedSource == UNCHANGED <<passes, now, market, fill_method>>

UnchangedStock == UNCHANGED <<stock_selected, df_stock, history_outcome, stats, ticker_info>>

\* an exception leaves main(): streamlit shows it and the pass is over
Raise(exception) == pc' = "crashed" /\ error' = exception

\* line 36: st.selectbox('Stock Ticker')
SelectStock ==
  /\ pc = "select_stock"
  /\ stock_selected' \in STOCKS
  /\ pc' = "load_history"
  /\ UNCHANGED <<stocks_list, df_stock, history_outcome, stats, ticker_info, calls, rendered,
                 error, history_cache, close_cache, info_cache, last_call>>
  /\ UnchangedSource /\ UnchangedComparison

\* line 38: df_stock = load_ticker_history(stock_selected, period), memoized
\* by st.cache_data; an exception of the fetch is not caught
CallLoadTickerHistory ==
  /\ pc = "load_history"
  /\ calls' = Append(calls, "load_ticker_history")
  /\ \/ /\ stock_selected \in DOMAIN history_cache
        /\ df_stock' = history_cache[stock_selected].df_stock
        /\ history_outcome' = history_cache[stock_selected].outcome
        /\ pc' = "statistics"
        /\ UNCHANGED <<history_cache, error>>
     \/ /\ stock_selected \notin DOMAIN history_cache
        /\ \E answer \in HistoryAnswers :
             IF answer = "raise"
             THEN /\ Raise("history fetch failed")
                  /\ history_outcome' = "raise"
                  /\ UNCHANGED <<df_stock, history_cache>>
             ELSE LET hist == IF answer = "ok" THEN market[stock_selected] ELSE <<>>
                  IN  /\ df_stock' = load_ticker_history(hist)
                      /\ history_outcome' = answer
                      /\ history_cache' =
                           [t \in DOMAIN history_cache \cup {stock_selected} |->
                              IF t = stock_selected
                              THEN [df_stock |-> load_ticker_history(hist), outcome |-> answer]
                              ELSE history_cache[t]]
                      /\ pc' = "statistics"
                      /\ UNCHANGED error
  /\ UNCHANGED <<stock_selected, stocks_list, stats, ticker_info, rendered, close_cache,
                 info_cache, last_call>>
  /\ UnchangedSource /\ UnchangedComparison

\* line 39: stats = statistics_historical_data(df_stock)
CallStatisticsHistoricalData ==
  /\ pc = "statistics"
  /\ stats' = statistics_historical_data(df_stock, fill_method)
  /\ calls' = Append(calls, "statistics_historical_data")
  /\ pc' = "load_info"
  /\ UNCHANGED <<stock_selected, stocks_list, df_stock, history_outcome, ticker_info,
                 rendered, error, history_cache, close_cache, info_cache, last_call>>
  /\ UnchangedSource /\ UnchangedComparison

\* line 40: ticker_info = load_ticker_info_today(stock_selected); an
\* exception of its body is not caught
CallLoadTickerInfoToday ==
  /\ pc = "load_info"
  /\ calls' = Append(calls, "load_ticker_info_today")
  /\ \E upstream \in UpstreamAnswers(stock_selected) :
       LET r == load_ticker_info_today(info_cache, stock_selected, now, upstream)
       IN  /\ info_cache' = r.cache
           /\ last_call' = Observed(stock_selected, r)
           /\ IF r.outcome = "raised"
              THEN Raise("quote fetch failed") /\ UNCHANGED ticker_info
              ELSE ticker_info' = r.info /\ pc' = "render_stock" /\ UNCHANGED error
  /\ UNCHANGED <<stock_selected, stocks_list, df_stock, history_outcome, stats, rendered,
                 history_cache, close_cache>>
  /\ UnchangedSource /\ UnchangedComparison

\* lines 42-111: the About popover, the statistics, the quote and the chart
RenderStock ==
  /\ pc = "render_stock"
  /\ rendered' = rendered \cup StockSections
  /\ pc' = "select_stocks"
  /\ UNCHANGED <<stocks_list, calls, error, history_cache, close_cache, info_cache, last_call>>
  /\ UnchangedSource /\ UnchangedStock /\ UnchangedComparison

\* line 124: st.multiselect('Stock Tickers')
SelectStocks ==
  /\ pc = "select_stocks"
  /\ stocks_list' \in StockLists
  /\ pc' = "stocks_close"
  /\ UNCHANGED <<calls, rendered, error, history_cache, close_cache, info_cache, last_call>>
  /\ UnchangedSource /\ UnchangedStock /\ UnchangedComparison

\* line 127: df_close_prices = df_stocks_close(stocks_period, stocks_list),
\* memoized by st.cache_data; an exception of a fetch is not caught
CallDfStocksClose ==
  /\ pc = "stocks_close"
  /\ calls' = Append(calls, "df_stocks_close")
  /\ \/ /\ stocks_list \in DOMAIN close_cache
        /\ df_close_prices' = close_cache[stocks_list]
        /\ pc' = "returns"
        /\ UNCHANGED <<close_cache, error>>
     \/ /\ stocks_list \notin DOMAIN close_cache
        /\ \E answers \in [Range(stocks_list) -> HistoryAnswers] :
             IF \E t \in Range(stocks_list) : answers[t] = "raise"
             THEN /\ Raise("history fetch failed")
                  /\ UNCHANGED <<df_close_prices, close_cache>>
             ELSE LET history == [t \in STOCKS |->
                                    IF t \in Range(stocks_list) /\ answers[t] = "ok"
                                    THEN market[t] ELSE <<>>]
                  IN  /\ df_close_prices' = df_stocks_close(history, stocks_list)
                      /\ close_cache' =
                           [l \in DOMAIN close_cache \cup {stocks_list} |->
                              IF l = stocks_list THEN df_stocks_close(history, stocks_list)
                              ELSE close_cache[l]]
                      /\ pc' = "returns"
                      /\ UNCHANGED error
  /\ UNCHANGED <<stocks_list, df_close_returns, df_returns_period, df_cumulative_returns,
                 corr_matrix, annualized_volatility, coefficient_variation, rendered,
                 history_cache, info_cache, last_call>>
  /\ UnchangedSource /\ UnchangedStock

UnchangedCaches == UNCHANGED <<history_cache, close_cache, info_cache, last_call>>

\* line 128: df_close_returns = df_returns(df_close_prices)
CallDfReturns ==
  /\ pc = "returns"
  /\ df_close_returns' = df_returns(df_close_prices, fill_method)
  /\ calls' = Append(calls, "df_returns")
  /\ pc' = "returns_period"
  /\ UNCHANGED <<stocks_list, df_close_prices, df_returns_period, df_cumulative_returns,
                 corr_matrix, annualized_volatility, coefficient_variation, rendered, error>>
  /\ UnchangedSource /\ UnchangedStock /\ UnchangedCaches

\* line 129: df_returns_period = df_stocks_returns_period(df_close_returns)
CallDfStocksReturnsPeriod ==
  /\ pc = "returns_period"
  /\ df_returns_period' = df_stocks_returns_period(df_close_returns)
  /\ calls' = Append(calls, "df_stocks_returns_period")
  /\ pc' = "returns_ranking"
  /\ UNCHANGED <<stocks_list, df_close_prices, df_close_returns, df_cumulative_returns,
                 corr_matrix, annualized_volatility, coefficient_variation, rendered, error>>
  /\ UnchangedSource /\ UnchangedStock /\ UnchangedCaches

\* line 130: df_cumulative_returns = df_stocks_returns_ranking(df_close_returns)
CallDfStocksReturnsRanking ==
  /\ pc = "returns_ranking"
  /\ df_cumulative_returns' \in df_stocks_returns_ranking(df_close_returns)
  /\ calls' = Append(calls, "df_stocks_returns_ranking")
  /\ pc' = "corr"
  /\ UNCHANGED <<stocks_list, df_close_prices, df_close_returns, df_returns_period,
                 corr_matrix, annualized_volatility, coefficient_variation, rendered, error>>
  /\ UnchangedSource /\ UnchangedStock /\ UnchangedCaches

\* line 131: corr_matrix = df_close_returns.corr()
CallCorr ==
  /\ pc = "corr"
  /\ corr_matrix' = corr(df_close_returns)
  /\ calls' = Append(calls, "corr")
  /\ pc' = "volatility"
  /\ UNCHANGED <<stocks_list, df_close_prices, df_close_returns, df_returns_period,
                 df_cumulative_returns, annualized_volatility, coefficient_variation,
                 rendered, error>>
  /\ UnchangedSource /\ UnchangedStock /\ UnchangedCaches

\* line 132: annualized_volatility = df_annualized_volatility(df_close_returns)
CallDfAnnualizedVolatility ==
  /\ pc = "volatility"
  /\ annualized_volatility' \in df_annualized_volatility(df_close_returns)
  /\ calls' = Append(calls, "df_annualized_volatility")
  /\ pc' = "coefficient"
  /\ UNCHANGED <<stocks_list, df_close_prices, df_close_returns, df_returns_period,
                 df_cumulative_returns, corr_matrix, coefficient_variation, rendered, error>>
  /\ UnchangedSource /\ UnchangedStock /\ UnchangedCaches

\* line 133: coefficient_variation = df_coefficient_variation(df_close_prices)
CallDfCoefficientVariation ==
  /\ pc = "coefficient"
  /\ coefficient_variation' \in df_coefficient_variation(df_close_prices)
  /\ calls' = Append(calls, "df_coefficient_variation")
  /\ pc' = "check"
  /\ UNCHANGED <<stocks_list, df_close_prices, df_close_returns, df_returns_period,
                 df_cumulative_returns, corr_matrix, annualized_volatility, rendered, error>>
  /\ UnchangedSource /\ UnchangedStock /\ UnchangedCaches

\* lines 137-139: fewer than two tickers: st.warning and st.stop()
CheckSelection ==
  /\ pc = "check"
  /\ IF stocks_list = <<>> \/ Len(stocks_list) = 1
     THEN rendered' = rendered \cup {"warning"} /\ pc' = "stopped"
     ELSE rendered' = rendered /\ pc' = "comparison"
  /\ UNCHANGED <<stocks_list, calls, error>>
  /\ UnchangedSource /\ UnchangedStock /\ UnchangedComparison /\ UnchangedCaches

\* lines 141-186: the two charts and the three rankings
RenderComparison ==
  /\ pc = "comparison"
  /\ rendered' = rendered \cup ComparisonSections
  /\ pc' = "done"
  /\ UNCHANGED <<stocks_list, calls, error>>
  /\ UnchangedSource /\ UnchangedStock /\ UnchangedComparison /\ UnchangedCaches

\* a widget changes or the page is reloaded: streamlit runs main() again,
\* with the caches of the session and the multiselect's value kept
Rerun ==
  /\ pc \in {"done", "stopped", "crashed"}
  /\ passes < MaxPasses
  /\ passes' = passes + 1
  /\ \E gap \in RerunGaps : now' = now + gap
  /\ pc' = "select_stock"
  /\ stock_selected' = ""
  /\ df_stock' = <<>>
  /\ history_outcome' = "none"
  /\ stats' = NoStats
  /\ ticker_info' = NoInfo
  /\ df_close_prices' = EmptyFrame
  /\ df_close_returns' = EmptyFrame
  /\ df_returns_period' = EmptyFrame
  /\ df_cumulative_returns' = <<>>
  /\ corr_matrix' = EmptyFrame
  /\ annualized_volatility' = <<>>
  /\ coefficient_variation' = <<>>
  /\ calls' = <<>>
  /\ rendered' = {}
  /\ error' = "none"
  /\ UNCHANGED <<market, fill_method, stocks_list>>
  /\ UnchangedCaches

Next ==
  \/ SelectStock
  \/ CallLoadTickerHistory
  \/ CallStatisticsHistoricalData
  \/ CallLoadTickerInfoToday
  \/ RenderStock
  \/ SelectStocks
  \/ CallDfStocksClose
  \/ CallDfReturns
  \/ CallDfStocksReturnsPeriod
  \/ CallDfStocksReturnsRanking
  \/ CallCorr
  \/ CallDfAnnualizedVolatility
  \/ CallDfCoefficientVariation
  \/ CheckSelection
  \/ RenderComparison
  \/ Rerun

Spec == Init /\ [][Next]_vars

(***************************************************************************)
(* Claims about the render pass (Spec).                                    *)
(***************************************************************************)
\* C1 as claimed: in a render pass whose list of tickers selected for
\* comparison has 0 or 1 elements, none of the multi-ticker functions
\* (df_returns, df_stocks_returns_period, df_stocks_returns_ranking, corr,
\* df_annualized_volatility, df_coefficient_variation) is called: the
\* fewer-than-two check comes before them.
C1_ShortCircuitBeforeMultiTicker ==
  Len(stocks_list) < 2 => \A f \in MultiTickerFunctions : ~Called(f)

\* C2 as claimed: a failed fetch for one ticker becomes an error outcome at
\* the accessor boundary, and no render pass ends in an uncaught exception.
C2_FetchFailureDoesNotAbortPass ==
  pc # "crashed" /\ error = "none"

\* C3 as claimed: in a render pass statistics_historical_data is never called
\* with the empty table of a failed load_ticker_history fetch.
C3_EngineNeverGetsFailedFetch ==
  ~(Called("statistics_historical_data") /\ history_outcome = "empty" /\ df_stock = <<>>)

(***************************************************************************)
(* Claims about the engine (SpecEngine).                                   *)
(***************************************************************************)
ColumnOf(df, c) == Series(df.index, df.data[c])

\* r is the return series of the price series p: 0 in the first row, and
\* p[i] / p[i-1] - 1 in every later row whose two prices are present
ReturnsOf(p, r) ==
  /\ r.index = p.index
  /\ Len(p.index) > 0 => r.val[p.index[1]] = Zero
  /\ \A i \in 2..Len(p.index) :
       ~IsNaN(p.val[p.index[i]]) /\ ~IsNaN(p.val[p.index[i - 1]])
         => r.val[p.index[i]] = RatSub(RatDiv(p.val[p.index[i]], p.val[p.index[i - 1]]), One)

\* C5: for every non-empty price series, and every column of a non-empty
\* ClosePriceMatrix, the first element of the return series (of df_returns
\* and of statistics_historical_data) is exactly 0, and a later element
\* whose two prices are present is price[i] / price[i-1] - 1.
C5_ReturnsFirstZeroThenRatio ==
  /\ Called("df_returns") =>
       \A c \in Range(df_close_prices.columns) :
          ReturnsOf(ColumnOf(df_close_prices, c), ColumnOf(df_close_returns, c))
  /\ Called("statistics_historical_data") =>
       ReturnsOf(Column(df_stock, "Close"), stock_returns(df_stock, fill_method))

\* C5 happens: a matrix of at least two rows went through df_returns, and one
\* of its columns has a return other than 0
C5_Witness ==
  /\ Called("df_returns")
  /\ Len(df_close_returns.index) >= 2
  /\ \E c \in Range(df_close_returns.columns), d \in Range(df_close_returns.index) :
       /\ df_close_returns.data[c][d] # Zero
       /\ ~IsNaN(df_close_prices.data[c][d])

AbsentCells ==
  {<<c, d>> \in Range(df_close_prices.columns) \X Range(df_close_prices.index) :
     IsNaN(df_close_prices.data[c][d])}

\* C6 as claimed: in df_returns, a price absent for a ticker on a date yields
\* an absent return in that cell (no numeric value such as 0).
C6_AbsentPriceAbsentReturn ==
  Called("df_returns") =>
    \A cell \in AbsentCells : IsNaN(df_close_returns.data[cell[1]][cell[2]])

\* C6 as amended: in df_returns, a price absent for a ticker on a date yields
\* the return 0 in that cell (fillna(0) fills every absent return, on any
\* row), and no cell of the result is absent.
C6_AbsentPriceZeroReturn ==
  Called("df_returns") =>
    /\ \A cell \in AbsentCells : df_close_returns.data[cell[1]][cell[2]] = Zero
    /\ \A c \in Range(df_close_returns.columns), d \in Range(df_close_returns.index) :
         ~IsNaN(df_close_returns.data[c][d])

\* C6 happens: df_returns ran on a matrix with an absent price below the
\* first row, in a column that has prices too
C6_Witness ==
  /\ Called("df_returns")
  /\ \E cell \in AbsentCells :
       /\ cell[2] # df_close_prices.index[1]
       /\ \E d \in Range(df_close_prices.index) : ~IsNaN(df_close_prices.data[cell[1]][d])

\* the cumulative returns of the input matrix before the sort and the rounding
UnroundedReturns == cumulative_returns(df_close_returns)

\* no two tickers have the same cumulative return before rounding, so that
\* the order sort_values gives the rows is determined
DistinctUnrounded ==
  \A i, j \in 1..Len(UnroundedReturns) :
     i # j => UnroundedReturns[i].Cumulative_Return # UnroundedReturns[j].Cumulative_Return

\* C7 as claimed, on the matrices whose unrounded cumulative returns are all
\* distinct: the output of df_stocks_returns_ranking is ordered by
\* non-increasing 2-decimal cumulative return, and tickers of equal output
\* value keep the relative order of their columns in the input matrix.
C7_RankingDescendingAndStable ==
  Called("df_stocks_returns_ranking") /\ DistinctUnrounded =>
    \A i, j \in 1..Len(df_cumulative_returns) :
       i < j =>
         /\ RatLeq(df_cumulative_returns[j].Cumulative_Return,
                   df_cumulative_returns[i].Cumulative_Return)
         /\ df_cumulative_returns[i].Cumulative_Return = df_cumulative_returns[j].Cumulative_Return
              => IndexOf(df_close_returns.columns, df_cumulative_returns[i].Ticker)
                   < IndexOf(df_close_returns.columns, df_cumulative_returns[j].Ticker)

RatAbs(x) == IF x.n < 0 THEN RatNeg(x) ELSE x

\* the rounding tolerance of 2 decimals
Tolerance == Rat(1, 100)

\* C8: for a ReturnMatrix of at least one row, the last row of
\* df_stocks_returns_period for a ticker equals the value
\* df_stocks_returns_ranking reports for that ticker, within the 2-decimal
\* rounding tolerance.
C8_PeriodLastRowIsRanking ==
  Called("df_stocks_returns_period") /\ Called("df_stocks_returns_ranking")
  /\ Len(df_close_returns.index) >= 1 =>
    \A i \in 1..Len(df_cumulative_returns) :
       LET last == df_returns_period.index[Len(df_returns_period.index)]
           row  == df_cumulative_returns[i]
       IN  /\ row.Ticker \in Range(df_returns_period.columns)
           /\ RatLeq(RatAbs(RatSub(df_returns_period.data[row.Ticker][last], row.Cumulative_Return)),
                     Tolerance)

\* C8 happens: both functions ran on a matrix of three rows in which a ticker
\* moved on the last day and ends away from 0
C8_Witness ==
  /\ Called("df_stocks_returns_period") /\ Called("df_stocks_returns_ranking")
  /\ Len(df_close_returns.index) >= 3
  /\ \E i \in 1..Len(df_cumulative_returns) :
       /\ df_cumulative_returns[i].Cumulative_Return # Zero
       /\ df_close_returns.data[df_cumulative_returns[i].Ticker][df_close_returns.index[3]] # Zero

\* C9 as claimed: for a PriceTable of exactly one bar,
\* statistics_historical_data returns Volatility = 0 and Cumulative Return = 0
\* as defined numbers, and High Price = Low Price = the close of that bar.
C9_OneBarStatistics ==
  Called("statistics_historical_data") /\ Len(df_stock) = 1 =>
    /\ stats.Volatility = SqrtOf(Zero)
    /\ stats.Cumulative_Return = Zero
    /\ stats.High_Price = df_stock[1].Close
    /\ stats.Low_Price = df_stock[1].Close

EmptyTickers == {t \in Range(stocks_list) : market[t] = <<>>}

\* the ClosePriceMatrix of the list without its tickers of empty history
WithoutEmpty == df_stocks_close(market, SelectSeq(stocks_list, LAMBDA t : market[t] # <<>>))

OthersUnaffected ==
  /\ df_close_prices.index = WithoutEmpty.index
  /\ \A c \in Range(WithoutEmpty.columns) :
       c \in Range(df_close_prices.columns) /\ df_close_prices.data[c] = WithoutEmpty.data[c]

\* C10 as claimed: in df_stocks_close a ticker whose fetched history is an
\* empty table has no column in the ClosePriceMatrix, and the columns of the
\* other tickers hold the closes they would hold without it in the list.
C10_EmptyTickerLeftOut ==
  Called("df_stocks_close") =>
    /\ \A t \in EmptyTickers : t \notin Range(df_close_prices.columns)
    /\ OthersUnaffected

\* the dates on which ticker t has a bar in the fetched history
DatesOf(t) == {market[t][i].Date : i \in 1..Len(market[t])}

\* the tickers of the list whose fetched history has bars, in list order
WithHistory == SelectSeq(stocks_list, LAMBDA t : market[t] # <<>>)

\* every cell holds the ticker's close on that date, or is absent when the
\* ticker has no bar on that date
CellsAligned ==
  \A t \in Range(stocks_list), d \in Range(df_close_prices.index) :
     df_close_prices.data[t][d] =
       IF d \in DatesOf(t) THEN Column(market[t], "Close").val[d] ELSE NaN

\* C11 as claimed: after df_stocks_close the row dates of the
\* ClosePriceMatrix are exactly the dates of the history of the first ticker
\* of the list; a date only a later ticker traded is no row, and a later
\* ticker has an absent cell on a date of the first ticker it lacks.
C11_RowsAreFirstTickerDates ==
  Called("df_stocks_close") /\ stocks_list # <<>> =>
    /\ Range(df_close_prices.index) = DatesOf(stocks_list[1])
    /\ CellsAligned

\* C11 as amended: after df_stocks_close the row dates of the
\* ClosePriceMatrix are exactly the dates of the first ticker of the list
\* whose history has bars (no row when no ticker has any); a date only
\* another ticker traded is no row, and a ticker has an absent cell on every
\* row date it lacks.
C11_RowsAreFirstNonEmptyTickerDates ==
  Called("df_stocks_close") /\ stocks_list # <<>> =>
    /\ Range(df_close_prices.index) =
         (IF WithHistory = <<>> THEN {} ELSE DatesOf(WithHistory[1]))
    /\ CellsAligned

\* C11 happens: df_stocks_close ran on two tickers, the second traded a date
\* the first did not (it is no row) and lacks a date of the first (its cell
\* there is absent), so the other order of the list gives other rows
C11_Witness ==
  /\ Called("df_stocks_close")
  /\ Len(stocks_list) = 2
  /\ DatesOf(stocks_list[2]) \ DatesOf(stocks_list[1]) # {}
  /\ \E d \in DatesOf(stocks_list[1]) \ DatesOf(stocks_list[2]) :
       IsNaN(df_close_prices.data[stocks_list[2]][d])
  /\ Range(df_close_prices.index) # DatesOf(stocks_list[2])

====
